---------------------------- MODULE Spec2Model ----------------------------
(***************************************************************************)
(* The broadcast pipeline of zelfm: the file source decoder thread, the    *)
(* PCM broadcast bus (tokio::sync::broadcast, capacity 100), and per       *)
(* listener the `listen` handler (accept, network writer, teardown) and    *)
(* its blocking encoder worker with the ChannelWriter byte sink feeding a  *)
(* bounded mpsc queue (capacity 10).                                       *)
(***************************************************************************)
EXTENDS Integers, Sequences, FiniteSets, TLC

\* ---- program constants -------------------------------------------------
PcmCapacity == 100
ChatCapacity == 100
DataCapacity == 10
OggQueueCapacity == 10
FlushThreshold == 8192
Bitrate == 128000
SampleRate == 44100
Channels == 2
StationName == "station"
StationDesc == "Live P2P Radio Stream"

\* ---- bounds of the model -----------------------------------------------
MaxSessions == 2
MaxBlocks == 1
SoloBlocks == 3
LagBlocks == 2
StallBlocks == 2
MaxOthers == 1
FileLen == 2
SmallWrite == 4096
MaxConns == 1
MaxChatSubs == 2
MaxChat == 2
MaxSinkChunks == 4
ChatLagMsgs == 1
StreamLen == 3
MaxRead == 2
MaxChunks == 4
MaxDst == 2

Slots == 1..MaxSessions

\* Byte counts one encoder call may hand to the byte sink.
WriteSizes == {0, SmallWrite, FlushThreshold}

\* Byte counts of the stream headers the encoder writes when it is built.
HeaderSizes == {SmallWrite, FlushThreshold}

\* Client connections, chat_stream calls, and the chat message text.
Conns == 1..MaxConns

ChatSubs == 1..MaxChatSubs

Texts == {"x"}

VARIABLES
    live,            \* session slots that connect in this run (scenario)
    limit,           \* number of blocks the run publishes at most (scenario)
    stalled,         \* slots whose peer has stopped draining (scenario)
    fleet,           \* most PCM receivers of sessions outside `live` (scenario)
    sizes,           \* byte counts encode_audio_block emits per block (scenario)
    src_channels,    \* channel count of the source file (scenario)
    chat_limit,      \* chat messages the run stores at most (scenario)
    others,          \* PCM receivers alive in sessions outside `live`
    file_ok,         \* File::open and the probe of the source file succeed
    dec,             \* decoder thread: "open" | "packets" | "sleep" | "exited"
    pos,             \* packets of the file consumed in the current pass
    tail,            \* blocks stored on the PCM bus so far (block ids 1..tail)
    listener_count,  \* RadioBroadcaster.listener_count
    pc,              \* listen handler of each session slot
    listener_id,     \* value fetch_add returned to the session
    last_id,         \* value fetch_add returned to the latest accept (-1: none)
    exit,            \* why the send loop of the session ended
    enc,             \* encoder worker of each session
    cursor,          \* pcm_rx: id of the last block the subscriber has passed
    sub_at,          \* tail at the subscribe step
    rcv,             \* block ids handed to the encoder, in order
    lagged,          \* the subscriber got RecvError::Lagged
    buf,             \* ChannelWriter.buffer length
    pending,         \* chunk held by a blocked blocking_send (0: none)
    pend_off,        \* offset of the pending chunk in the emitted bytes
    emitted,         \* bytes the encoder has handed to ChannelWriter::write
    queue,           \* ogg mpsc queue: chunk lengths
    qoff,            \* ogg mpsc queue: offset of each chunk in the emitted bytes
    qopen,           \* ogg_rx is alive
    cur,             \* chunk the handler is writing
    cur_off,         \* offset of that chunk in the emitted bytes
    sent,            \* bytes written to the send stream so far
    conn,            \* per connection: it is open
    ext,             \* per connection: ids of the ListenerInfo records in its
                     \*   extension map (empty: no ListenerInfo)
    info_ret,        \* <<StationInfo>> of the latest get_info (<<>>: no call yet)
    chat_ret,        \* result of the latest send_chat call ("none": no call yet)
    chat_log,        \* ChatMessages stored on the chat bus, in publish order
    csub,            \* chat_stream call: "none" | "attached" | "ended"
    ccursor,         \* chat_rx: position of the last message it has passed
    csub_at,         \* length of chat_log at the subscribe step
    crcv,            \* <<position, message>> pairs handed to the sink, in order
    rtask,           \* client recv_task: "none" | "run" | "done"
    net,             \* bytes of the stream put on the data channel (ids 1..net)
    nput,            \* chunks put on the data channel so far
    dq,              \* data channel: chunks, each a sequence of byte ids
    rpc,             \* ChannelReader: "none" | "idle" | "reading" | "dropped"
    want,            \* length of the destination buffer of the read in progress
    rbuf,            \* ChannelReader.buffer
    rpos,            \* ChannelReader.position
    got,             \* byte ids the read calls have returned, in order
    ret              \* return value of the latest read call (-1: none yet)

vars == <<live, limit, stalled, fleet, sizes, src_channels, chat_limit, others, file_ok, dec, pos, tail, listener_count, pc,
          listener_id, last_id, exit, enc, cursor, sub_at, rcv, lagged, buf, pending,
          pend_off, emitted, queue, qoff, qopen, cur, cur_off, sent,
          conn, ext, info_ret, chat_ret, chat_log, csub, ccursor, csub_at, crcv,
          rtask, net, nput, dq, rpc, want, rbuf, rpos, got, ret>>

scenarioVars == <<limit, stalled, fleet, sizes, src_channels, chat_limit, file_ok>>
clientVars == <<rtask, net, nput, dq, rpc, want, rbuf, rpos, got, ret>>
decVars == <<dec, pos, tail>>
chatVars == <<chat_log, csub, ccursor, csub_at, crcv>>
rpcVars == <<conn, ext, info_ret, chat_ret>>
busVars == <<others, chatVars, rpcVars>>
handlerVars == <<listener_count, pc, listener_id, last_id, exit, cur, cur_off, sent>>
encVars == <<enc, cursor, sub_at, rcv, lagged, buf, pending, pend_off, emitted>>
chanVars == <<queue, qoff, qopen>>
audioVars == <<live, scenarioVars, clientVars, decVars, others, handlerVars, encVars, chanVars>>

\* ---- the PCM bus -------------------------------------------------------

\* The encoder closure owns pcm_rx from spawn until the closure returns.
RxAlive(s) == enc[s] \in {"queued", "loop", "blocked", "finish", "blocked_finish"}

ReceiverCount == Cardinality({s \in Slots : RxAlive(s)}) + others

\* broadcast::Sender::send fails iff no receiver is alive.
SendFails == ReceiverCount = 0

\* ---- initial state -----------------------------------------------------

InitCommon ==
    /\ file_ok \in BOOLEAN
    /\ others = 0
    /\ dec = "open"
    /\ pos = 0
    /\ tail = 0
    /\ listener_count = 0
    /\ pc = [s \in Slots |-> "idle"]
    /\ listener_id = [s \in Slots |-> -1]
    /\ last_id = -1
    /\ exit = [s \in Slots |-> "none"]
    /\ enc = [s \in Slots |-> "none"]
    /\ cursor = [s \in Slots |-> 0]
    /\ sub_at = [s \in Slots |-> 0]
    /\ rcv = [s \in Slots |-> <<>>]
    /\ lagged = [s \in Slots |-> FALSE]
    /\ buf = [s \in Slots |-> 0]
    /\ pending = [s \in Slots |-> 0]
    /\ pend_off = [s \in Slots |-> 0]
    /\ emitted = [s \in Slots |-> 0]
    /\ queue = [s \in Slots |-> <<>>]
    /\ qoff = [s \in Slots |-> <<>>]
    /\ qopen = [s \in Slots |-> FALSE]
    /\ cur = [s \in Slots |-> 0]
    /\ cur_off = [s \in Slots |-> 0]
    /\ sent = [s \in Slots |-> 0]
    /\ conn = [c \in Conns |-> FALSE]
    /\ ext = [c \in Conns |-> {}]
    /\ info_ret = <<>>
    /\ chat_ret = "none"
    /\ chat_log = <<>>
    /\ csub = [k \in ChatSubs |-> "none"]
    /\ ccursor = [k \in ChatSubs |-> 0]
    /\ csub_at = [k \in ChatSubs |-> 0]
    /\ crcv = [k \in ChatSubs |-> <<>>]
    /\ rtask = "none"
    /\ net = 0
    /\ nput = 0
    /\ dq = <<>>
    /\ rpc = "none"
    /\ want = 0
    /\ rbuf = <<>>
    /\ rpos = 0
    /\ got = <<>>
    /\ ret = -1

\* The fleet: every slot connects; no session outside the slots.
Init ==
    /\ live = Slots
    /\ limit = MaxBlocks
    /\ stalled = {}
    /\ fleet = 0
    /\ sizes = WriteSizes
    /\ src_channels = Channels
    /\ chat_limit = MaxChat
    /\ InitCommon

\* One listener in detail; the rest of the fleet as a count of receivers.
InitSolo ==
    /\ live = {1}
    /\ limit = SoloBlocks
    /\ stalled = {}
    /\ fleet = MaxOthers
    /\ sizes = WriteSizes
    /\ src_channels = Channels
    /\ chat_limit = MaxChat
    /\ InitCommon

\* A slow subscriber: one listener whose encoder emits nothing while it
\* takes blocks, and a source that runs for more than the bus retains.
InitLag ==
    /\ live = {1}
    /\ limit = PcmCapacity + LagBlocks
    /\ stalled = {}
    /\ fleet = 0
    /\ sizes = {0}
    /\ src_channels = Channels
    /\ chat_limit = MaxChat
    /\ InitCommon

\* Two listeners. Listener 2 connects first and its peer never drains the
\* stream; listener 1 connects once the byte queue of listener 2 is full
\* (Arrive). Every block encodes to a full chunk, and the source runs long
\* enough to fill a byte queue.
InitStall ==
    /\ live = {2}
    /\ limit = OggQueueCapacity + 1 + StallBlocks
    /\ stalled = {2}
    /\ fleet = 0
    /\ sizes = {FlushThreshold}
    /\ src_channels = Channels
    /\ chat_limit = MaxChat
    /\ InitCommon

\* One listener of a source file whose channel count is not the target's
\* (a mono file, or one with a channel more than stereo).
InitMono ==
    /\ live = {1}
    /\ limit = SoloBlocks
    /\ stalled = {}
    /\ fleet = 0
    /\ sizes = WriteSizes
    /\ src_channels \in {Channels - 1, Channels + 1}
    /\ chat_limit = MaxChat
    /\ InitCommon

\* ---- the decoder thread ------------------------------------------------

\* decode_file_once: File::open .. make decoder. An error leaves the pass.
DecOpen ==
    /\ dec = "open"
    /\ dec' = IF file_ok THEN "packets" ELSE "sleep"
    /\ pos' = 0
    /\ UNCHANGED <<tail, live, scenarioVars, clientVars, busVars, handlerVars, encVars, chanVars>>

\* file_decode_loop, Err(e): sleep 1 s, then the next iteration.
DecSleep ==
    /\ dec = "sleep"
    /\ dec' = "open"
    /\ UNCHANGED <<pos, tail, live, scenarioVars, clientVars, busVars, handlerVars, encVars, chanVars>>

\* decode_file_once: end of stream, Ok(true); file_decode_loop loops.
DecEof ==
    /\ dec = "packets"
    /\ pos = FileLen
    /\ dec' = "open"
    /\ UNCHANGED <<pos, tail, live, scenarioVars, clientVars, busVars, handlerVars, encVars, chanVars>>

\* A publish that waits while the byte queue of some receiver is full:
\* what a bounded bus with backpressure would do.
DecPublishBackpressure ==
    /\ dec = "packets"
    /\ pos < FileLen
    /\ \A s \in Slots : RxAlive(s) => Len(queue[s]) < OggQueueCapacity
    /\ IF SendFails
         THEN /\ dec' = "exited"
              /\ UNCHANGED <<pos, tail>>
         ELSE /\ tail < limit
              /\ tail' = tail + 1
              /\ pos' = pos + 1
              /\ UNCHANGED dec
    /\ UNCHANGED <<live, scenarioVars, clientVars, busVars, handlerVars, encVars, chanVars>>

\* decode_file_once: one packet that decodes; pcm_tx.send(planar).
DecPublish ==
    /\ dec = "packets"
    /\ pos < FileLen
    /\ IF SendFails
         THEN /\ dec' = "exited"
              /\ UNCHANGED <<pos, tail>>
         ELSE /\ tail < limit
              /\ tail' = tail + 1
              /\ pos' = pos + 1
              /\ UNCHANGED dec
    /\ UNCHANGED <<live, scenarioVars, clientVars, busVars, handlerVars, encVars, chanVars>>

\* decode_file_once: a packet of another track, or a DecodeError: continue.
DecSkip ==
    /\ dec = "packets"
    /\ pos < FileLen
    /\ pos' = pos + 1
    /\ UNCHANGED <<dec, tail, live, scenarioVars, clientVars, busVars, handlerVars, encVars, chanVars>>

\* decode_file_once: ResetRequired ends the pass with Ok(true).
DecReset ==
    /\ dec = "packets"
    /\ pos < FileLen
    /\ dec' = "open"
    /\ UNCHANGED <<pos, tail, live, scenarioVars, clientVars, busVars, handlerVars, encVars, chanVars>>

\* A decode loop that gives up on an error of a pass.
DecFatalExits ==
    /\ dec = "packets"
    /\ pos < FileLen
    /\ dec' = "exited"
    /\ UNCHANGED <<pos, tail, live, scenarioVars, clientVars, busVars, handlerVars, encVars, chanVars>>

\* decode_file_once: any other read or decode error, Err(e).
DecFatal ==
    /\ dec = "packets"
    /\ pos < FileLen
    /\ dec' = "sleep"
    /\ UNCHANGED <<pos, tail, live, scenarioVars, clientVars, busVars, handlerVars, encVars, chanVars>>

\* ---- the byte sink: ChannelWriter over the ogg mpsc queue --------------

\* tx.blocking_send(chunk): Err when ogg_rx is gone, else enqueue, else
\* block the worker thread holding the chunk until there is room. `off` is
\* where the chunk starts in the bytes the encoder has emitted.
BlockingSend(s, chunk, off, okState, errState, blockedState) ==
    IF ~qopen[s]
      THEN /\ enc' = [enc EXCEPT ![s] = errState]
           /\ UNCHANGED <<queue, qoff, pending, pend_off>>
      ELSE IF Len(queue[s]) < OggQueueCapacity
        THEN /\ queue' = [queue EXCEPT ![s] = Append(@, chunk)]
             /\ qoff' = [qoff EXCEPT ![s] = Append(@, off)]
             /\ enc' = [enc EXCEPT ![s] = okState]
             /\ UNCHANGED <<pending, pend_off>>
        ELSE /\ pending' = [pending EXCEPT ![s] = chunk]
             /\ pend_off' = [pend_off EXCEPT ![s] = off]
             /\ enc' = [enc EXCEPT ![s] = blockedState]
             /\ UNCHANGED <<queue, qoff>>

\* The byte count of the worker after a call that emitted n bytes (the
\* count is gone with the closure once the worker is done).
Emit(s, n) ==
    emitted' = [emitted EXCEPT ![s] = IF enc'[s] = "done" THEN 0 ELSE @ + n]

\* A sink that sends the buffer as a chunk but does not clear it.
ChannelWriteKeepsBuffer(s, n, okState, errState, blockedState) ==
    LET nb == buf[s] + n IN
    /\ IF nb >= FlushThreshold
         THEN /\ buf' = [buf EXCEPT ![s] = nb]
              /\ BlockingSend(s, nb, emitted[s] - buf[s],
                              okState, errState, blockedState)
         ELSE /\ buf' = [buf EXCEPT ![s] = nb]
              /\ enc' = [enc EXCEPT ![s] = okState]
              /\ UNCHANGED <<queue, qoff, pending, pend_off>>
    /\ Emit(s, n)

\* ChannelWriter::write(buf) with buf.len() = n: extend the buffer; at
\* 8192 bytes or more, clone it into a chunk, clear it, send the chunk.
ChannelWrite(s, n, okState, errState, blockedState) ==
    LET nb == buf[s] + n IN
    /\ IF nb >= FlushThreshold
         THEN /\ buf' = [buf EXCEPT ![s] = 0]
              /\ BlockingSend(s, nb, emitted[s] - buf[s],
                              okState, errState, blockedState)
         ELSE /\ buf' = [buf EXCEPT ![s] = nb]
              /\ enc' = [enc EXCEPT ![s] = okState]
              /\ UNCHANGED <<queue, qoff, pending, pend_off>>
    /\ Emit(s, n)

\* ---- the encoder worker (spawn_blocking closure) -----------------------

\* The closure returns: its locals (encoder, sink, pcm_rx, ogg_tx) are gone.
EncDropped(s) ==
    /\ cursor' = [cursor EXCEPT ![s] = 0]
    /\ sub_at' = [sub_at EXCEPT ![s] = 0]
    /\ rcv' = [rcv EXCEPT ![s] = <<>>]
    /\ lagged' = [lagged EXCEPT ![s] = FALSE]

\* The worker state a receive error of pcm_rx leads to: `while let Ok(..)`
\* leaves the loop on Lagged as on Closed, and the worker finishes.
AfterRecvError == "finish"

\* VorbisEncoderBuilder::new(..).build(): the stream headers go to the sink.
EncStart(s) ==
    /\ enc[s] = "queued"
    /\ \E n \in HeaderSizes : ChannelWrite(s, n, "loop", "done", "blocked")
    /\ IF enc'[s] = "done" THEN EncDropped(s)
                           ELSE UNCHANGED <<cursor, sub_at, rcv, lagged>>
    /\ UNCHANGED qopen
    /\ UNCHANGED <<live, scenarioVars, clientVars, decVars, busVars, handlerVars>>

\* A worker that ignores the failed setup and enters the encoding loop,
\* keeping the sink (and with it ogg_tx) alive.
EncInitFailIgnored(s) ==
    /\ enc[s] = "queued"
    /\ enc' = [enc EXCEPT ![s] = "loop"]
    /\ UNCHANGED <<cursor, sub_at, rcv, lagged>>
    /\ UNCHANGED <<buf, pending, pend_off, emitted, chanVars>>
    /\ UNCHANGED <<live, scenarioVars, clientVars, decVars, busVars, handlerVars>>

\* Encoder setup or build fails: the closure returns Err and drops the sink.
EncInitFail(s) ==
    /\ enc[s] = "queued"
    /\ enc' = [enc EXCEPT ![s] = "done"]
    /\ EncDropped(s)
    /\ UNCHANGED <<buf, pending, pend_off, emitted, chanVars>>
    /\ UNCHANGED <<live, scenarioVars, clientVars, decVars, busVars, handlerVars>>

\* pcm_rx.blocking_recv() returns the next block; encode_audio_block.
EncEncode(s) ==
    /\ enc[s] = "loop"
    /\ cursor[s] < tail
    /\ tail - cursor[s] <= PcmCapacity
    /\ cursor' = [cursor EXCEPT ![s] = @ + 1]
    /\ rcv' = [rcv EXCEPT ![s] = Append(@, cursor[s] + 1)]
    /\ \E n \in sizes : ChannelWrite(s, n, "loop", "finish", "blocked")
    /\ UNCHANGED <<sub_at, lagged, qopen>>
    /\ UNCHANGED <<live, scenarioVars, clientVars, decVars, busVars, handlerVars>>

\* Planes of the block handed to encode_audio_block: the block is passed
\* as the decoder published it, one plane per channel of the source.
HandedWidth == src_channels

\* encode_audio_block is given a block whose plane count is not the
\* encoder's channel count and fails: the loop breaks (or the worker
\* unwinds), and the worker goes on to finish the stream.
EncReject(s) ==
    /\ enc[s] = "loop"
    /\ cursor[s] < tail
    /\ tail - cursor[s] <= PcmCapacity
    /\ HandedWidth # Channels
    /\ cursor' = [cursor EXCEPT ![s] = @ + 1]
    /\ rcv' = [rcv EXCEPT ![s] = Append(@, cursor[s] + 1)]
    /\ enc' = [enc EXCEPT ![s] = "finish"]
    /\ UNCHANGED <<sub_at, lagged, buf, pending, pend_off, emitted, chanVars>>
    /\ UNCHANGED <<live, scenarioVars, clientVars, decVars, busVars, handlerVars>>

\* pcm_rx.blocking_recv() returns Err(Lagged): the oldest blocks were
\* overwritten; the receiver is moved to the oldest retained block.
EncLagged(s) ==
    /\ enc[s] = "loop"
    /\ tail - cursor[s] > PcmCapacity
    /\ cursor' = [cursor EXCEPT ![s] = tail - PcmCapacity]
    /\ lagged' = [lagged EXCEPT ![s] = TRUE]
    /\ enc' = [enc EXCEPT ![s] = AfterRecvError]
    /\ UNCHANGED <<sub_at, rcv, buf, pending, pend_off, emitted, chanVars>>
    /\ UNCHANGED <<live, scenarioVars, clientVars, decVars, busVars, handlerVars>>

\* A blocked blocking_send resumes: ogg_rx was dropped (Err), or there is
\* room in the queue (the chunk is enqueued and the call returns).
EncUnblock(s) ==
    /\ enc[s] \in {"blocked", "blocked_finish"}
    /\ IF ~qopen[s]
         THEN /\ enc' = [enc EXCEPT ![s] = IF @ = "blocked" THEN "finish" ELSE "done"]
              /\ UNCHANGED <<queue, qoff>>
         ELSE /\ Len(queue[s]) < OggQueueCapacity
              /\ queue' = [queue EXCEPT ![s] = Append(@, pending[s])]
              /\ qoff' = [qoff EXCEPT ![s] = Append(@, pend_off[s])]
              /\ enc' = [enc EXCEPT ![s] = IF @ = "blocked" THEN "loop" ELSE "done"]
    /\ pending' = [pending EXCEPT ![s] = 0]
    /\ pend_off' = [pend_off EXCEPT ![s] = 0]
    /\ Emit(s, 0)
    /\ IF enc'[s] = "done" THEN EncDropped(s)
                           ELSE UNCHANGED <<cursor, sub_at, rcv, lagged>>
    /\ UNCHANGED <<buf, qopen>>
    /\ UNCHANGED <<live, scenarioVars, clientVars, decVars, busVars, handlerVars>>

\* encoder.finish() writes the trailing frames; the returned sink is
\* dropped, and Drop flushes what is left in the buffer. Errors are ignored.
EncFinish(s) ==
    /\ enc[s] = "finish"
    /\ \E n \in WriteSizes :
         LET nb == buf[s] + n IN
         /\ buf' = [buf EXCEPT ![s] = 0]
         /\ IF nb = 0
              THEN /\ enc' = [enc EXCEPT ![s] = "done"]
                   /\ UNCHANGED <<queue, qoff, pending, pend_off>>
              ELSE BlockingSend(s, nb, emitted[s] - buf[s],
                                "done", "done", "blocked_finish")
         /\ Emit(s, n)
    /\ IF enc'[s] = "done" THEN EncDropped(s)
                           ELSE UNCHANGED <<cursor, sub_at, rcv, lagged>>
    /\ UNCHANGED qopen
    /\ UNCHANGED <<live, scenarioVars, clientVars, decVars, busVars, handlerVars>>

\* The sink on its own, under any sequence of the calls its Write
\* interface and its Drop admit, while ogg_rx is open and has room.

\* ChannelWriter::write of n bytes.
SinkWrite(s) ==
    /\ enc[s] = "loop"
    /\ Len(queue[s]) < MaxSinkChunks
    /\ \E n \in WriteSizes : ChannelWrite(s, n, "loop", "finish", "blocked")
    /\ UNCHANGED <<cursor, sub_at, rcv, lagged, qopen>>
    /\ UNCHANGED <<live, scenarioVars, clientVars, decVars, busVars, handlerVars>>

\* A flush that sends the buffer also when it is empty.
SinkFlushSendsEmpty(s) ==
    /\ enc[s] = "loop"
    /\ Len(queue[s]) < MaxSinkChunks
    /\ buf' = [buf EXCEPT ![s] = 0]
    /\ BlockingSend(s, buf[s], emitted[s] - buf[s], "loop", "finish", "blocked")
    /\ UNCHANGED <<cursor, sub_at, rcv, lagged, emitted, qopen>>
    /\ UNCHANGED <<live, scenarioVars, clientVars, decVars, busVars, handlerVars>>

\* ChannelWriter::flush: a non-empty buffer is cloned into a chunk,
\* cleared, and the chunk sent; an empty one is left alone.
SinkFlush(s) ==
    /\ enc[s] = "loop"
    /\ Len(queue[s]) < MaxSinkChunks
    /\ IF buf[s] = 0
         THEN UNCHANGED <<buf, enc, queue, qoff, pending, pend_off>>
         ELSE /\ buf' = [buf EXCEPT ![s] = 0]
              /\ BlockingSend(s, buf[s], emitted[s] - buf[s],
                              "loop", "finish", "blocked")
    /\ UNCHANGED <<cursor, sub_at, rcv, lagged, emitted, qopen>>
    /\ UNCHANGED <<live, scenarioVars, clientVars, decVars, busVars, handlerVars>>

\* Drop for ChannelWriter: flush, result ignored; the sink and its
\* sender are gone.
SinkDrop(s) ==
    /\ enc[s] = "loop"
    /\ Len(queue[s]) < MaxSinkChunks
    /\ buf' = [buf EXCEPT ![s] = 0]
    /\ IF buf[s] = 0
         THEN /\ enc' = [enc EXCEPT ![s] = "done"]
              /\ UNCHANGED <<queue, qoff, pending, pend_off>>
         ELSE BlockingSend(s, buf[s], emitted[s] - buf[s],
                           "done", "done", "blocked_finish")
    /\ Emit(s, 0)
    /\ EncDropped(s)
    /\ UNCHANGED qopen
    /\ UNCHANGED <<live, scenarioVars, clientVars, decVars, busVars, handlerVars>>

\* ---- the listen handler ------------------------------------------------

\* The handler future is gone (returned or dropped): so are its locals
\* listener_id, the chunk in hand, the send stream and ogg_rx.
HandlerDropped(s) ==
    /\ listener_id' = [listener_id EXCEPT ![s] = -1]
    /\ exit' = [exit EXCEPT ![s] = "none"]
    /\ cur' = [cur EXCEPT ![s] = 0]
    /\ cur_off' = [cur_off EXCEPT ![s] = 0]
    /\ sent' = [sent EXCEPT ![s] = 0]
    /\ qopen' = [qopen EXCEPT ![s] = FALSE]
    /\ queue' = [queue EXCEPT ![s] = <<>>]
    /\ qoff' = [qoff EXCEPT ![s] = <<>>]

\* listener_count.fetch_add(1): the previous value is the listener id.
Accept(s) ==
    /\ pc[s] = "idle"
    /\ listener_id' = [listener_id EXCEPT ![s] = listener_count]
    /\ last_id' = listener_count
    /\ listener_count' = listener_count + 1
    /\ pc' = [pc EXCEPT ![s] = "accepted"]
    /\ UNCHANGED <<exit, cur, cur_off, sent>>
    /\ UNCHANGED <<live, scenarioVars, clientVars, decVars, busVars, encVars, chanVars>>

\* A subscription that starts at the oldest block the bus retains.
SubscribeAtOldest == IF tail > PcmCapacity THEN tail - PcmCapacity ELSE 0

\* The position a new pcm_rx starts from: the live edge.
SubscribeAt == tail

\* pcm_broadcast_tx.subscribe(), mpsc::channel(10), spawn_blocking(..).
Subscribe(s) ==
    /\ pc[s] = "accepted"
    /\ cursor' = [cursor EXCEPT ![s] = SubscribeAt]
    /\ sub_at' = [sub_at EXCEPT ![s] = tail]
    /\ enc' = [enc EXCEPT ![s] = "queued"]
    /\ qopen' = [qopen EXCEPT ![s] = TRUE]
    /\ pc' = [pc EXCEPT ![s] = "recv"]
    /\ UNCHANGED <<listener_count, listener_id, last_id, exit, cur, cur_off, sent>>
    /\ UNCHANGED <<rcv, lagged, buf, pending, pend_off, emitted, queue, qoff>>
    /\ UNCHANGED <<live, scenarioVars, clientVars, decVars, busVars>>

\* ogg_rx.recv().await returns Some(chunk).
RecvChunk(s) ==
    /\ pc[s] = "recv"
    /\ queue[s] # <<>>
    /\ cur' = [cur EXCEPT ![s] = Head(queue[s])]
    /\ cur_off' = [cur_off EXCEPT ![s] = Head(qoff[s])]
    /\ queue' = [queue EXCEPT ![s] = Tail(@)]
    /\ qoff' = [qoff EXCEPT ![s] = Tail(@)]
    /\ pc' = [pc EXCEPT ![s] = "write"]
    /\ UNCHANGED <<listener_count, listener_id, last_id, exit, sent, qopen>>
    /\ UNCHANGED <<live, scenarioVars, clientVars, decVars, busVars, encVars>>

\* A receive that reports the closed queue as soon as ogg_tx is gone,
\* whatever is still queued.
RecvNoneOnClosed(s) ==
    /\ pc[s] = "recv"
    /\ enc[s] = "done"
    /\ pc' = [pc EXCEPT ![s] = "finish"]
    /\ exit' = [exit EXCEPT ![s] = "eof"]
    /\ UNCHANGED <<listener_count, listener_id, last_id, cur, cur_off, sent>>
    /\ UNCHANGED <<live, scenarioVars, clientVars, decVars, busVars, encVars, chanVars>>

\* ogg_rx.recv().await returns None: the queue is empty and ogg_tx is gone.
RecvNone(s) ==
    /\ pc[s] = "recv"
    /\ queue[s] = <<>>
    /\ enc[s] = "done"
    /\ pc' = [pc EXCEPT ![s] = "finish"]
    /\ exit' = [exit EXCEPT ![s] = "eof"]
    /\ UNCHANGED <<listener_count, listener_id, last_id, cur, cur_off, sent>>
    /\ UNCHANGED <<live, scenarioVars, clientVars, decVars, busVars, encVars, chanVars>>

\* timeout(SEND_TIMEOUT, send.write_all(&chunk)) gives Ok(Ok(())).
WriteOk(s) ==
    /\ pc[s] = "write"
    /\ s \notin stalled
    /\ sent' = [sent EXCEPT ![s] = @ + cur[s]]
    /\ cur' = [cur EXCEPT ![s] = 0]
    /\ cur_off' = [cur_off EXCEPT ![s] = 0]
    /\ pc' = [pc EXCEPT ![s] = "recv"]
    /\ UNCHANGED <<listener_count, listener_id, last_id, exit>>
    /\ UNCHANGED <<live, scenarioVars, clientVars, decVars, busVars, encVars, chanVars>>

\* The handler state after a write that gave Ok(Err(e)): break.
AfterWriteError == "finish"

\* A deadline arm that logs and goes on with the next chunk (no break).
AfterWriteTimeoutContinue == "recv"

\* The handler state after a write that gave Err(_) (deadline): break.
AfterWriteTimeout == "finish"

\* timeout(..) gives Ok(Err(e)): the write failed.
WriteErr(s) ==
    /\ pc[s] = "write"
    /\ pc' = [pc EXCEPT ![s] = AfterWriteError]
    /\ exit' = [exit EXCEPT ![s] = "ioerror"]
    /\ cur' = [cur EXCEPT ![s] = 0]
    /\ cur_off' = [cur_off EXCEPT ![s] = 0]
    /\ UNCHANGED <<listener_count, listener_id, last_id, sent>>
    /\ UNCHANGED <<live, scenarioVars, clientVars, decVars, busVars, encVars, chanVars>>

\* timeout(..) gives Err(_): the write did not complete in 30 s.
WriteStall(s) ==
    /\ pc[s] = "write"
    /\ pc' = [pc EXCEPT ![s] = AfterWriteTimeout]
    /\ exit' = [exit EXCEPT ![s] = "stall"]
    /\ cur' = [cur EXCEPT ![s] = 0]
    /\ cur_off' = [cur_off EXCEPT ![s] = 0]
    /\ UNCHANGED <<listener_count, listener_id, last_id, sent>>
    /\ UNCHANGED <<live, scenarioVars, clientVars, decVars, busVars, encVars, chanVars>>

\* A cleanup that decrements right after send.finish(), before the abort.
TdFinishThenDecrement(s) ==
    /\ pc[s] = "finish"
    /\ pc' = [pc EXCEPT ![s] = "dec"]
    /\ UNCHANGED <<listener_count, listener_id, last_id, exit, cur, cur_off, sent>>
    /\ UNCHANGED <<live, scenarioVars, clientVars, decVars, busVars, encVars, chanVars>>

\* Cleanup, first statement: send.finish().
TdFinish(s) ==
    /\ pc[s] = "finish"
    /\ pc' = [pc EXCEPT ![s] = "abort"]
    /\ UNCHANGED <<listener_count, listener_id, last_id, exit, cur, cur_off, sent>>
    /\ UNCHANGED <<live, scenarioVars, clientVars, decVars, busVars, encVars, chanVars>>

\* encoder_task.abort(): a blocking task that already runs is not affected;
\* one that has not started may be kept from starting (its closure dropped).
TdAbort(s) ==
    /\ pc[s] = "abort"
    /\ \/ UNCHANGED enc
       \/ /\ enc[s] = "queued"
          /\ enc' = [enc EXCEPT ![s] = "done"]
    /\ pc' = [pc EXCEPT ![s] = "dec"]
    /\ UNCHANGED <<listener_count, listener_id, last_id, exit, cur, cur_off, sent>>
    /\ UNCHANGED <<cursor, sub_at, rcv, lagged, buf, pending, pend_off, emitted, chanVars>>
    /\ UNCHANGED <<live, scenarioVars, clientVars, decVars, busVars>>

\* listener_count.fetch_sub(1), then the handler returns.
TdDecrement(s) ==
    /\ pc[s] = "dec"
    /\ listener_count' = listener_count - 1
    /\ pc' = [pc EXCEPT ![s] = "done"]
    /\ HandlerDropped(s)
    /\ UNCHANGED last_id
    /\ UNCHANGED <<live, scenarioVars, clientVars, decVars, busVars, encVars>>

\* The handler future is dropped while suspended at an await (the peer's
\* connection is closed, or the server shuts down): nothing after the await
\* runs; the locals are dropped, the encoder task is left detached.
Cancel(s) ==
    /\ pc[s] \in {"recv", "write"}
    /\ pc' = [pc EXCEPT ![s] = "cancelled"]
    /\ HandlerDropped(s)
    /\ UNCHANGED <<listener_count, last_id>>
    /\ UNCHANGED <<live, scenarioVars, clientVars, decVars, busVars, encVars>>

\* A client opens a new listen stream: a slot whose session has ended and
\* whose encoder worker is gone is taken by the next listen call.
Reconnect(s) ==
    /\ pc[s] \in {"done", "cancelled"}
    /\ enc[s] \in {"none", "done"}
    /\ listener_count < MaxSessions
    /\ pc' = [pc EXCEPT ![s] = "idle"]
    /\ enc' = [enc EXCEPT ![s] = "none"]
    /\ UNCHANGED <<listener_count, listener_id, last_id, exit, cur, cur_off, sent>>
    /\ UNCHANGED <<cursor, sub_at, rcv, lagged, buf, pending, pend_off, emitted>>
    /\ UNCHANGED <<live, scenarioVars, clientVars, decVars, busVars, chanVars>>

\* ---- sessions outside the modelled slots ------------------------------

\* Another session's pcm_broadcast_tx.subscribe().
OtherSubscribe ==
    /\ others < fleet
    /\ others' = others + 1
    /\ UNCHANGED <<chatVars, rpcVars>>
    /\ UNCHANGED <<live, scenarioVars, clientVars, decVars, handlerVars, encVars, chanVars>>

\* Another session's encoder closure returns and drops its pcm_rx.
OtherDrop ==
    /\ others > 0
    /\ others' = others - 1
    /\ UNCHANGED <<chatVars, rpcVars>>
    /\ UNCHANGED <<live, scenarioVars, clientVars, decVars, handlerVars, encVars, chanVars>>

\* The client of listener 1 opens its listen stream when listener 2 has
\* stalled with a full byte queue (the order of the stall scenario).
Arrive ==
    /\ live = {2}
    /\ enc[2] = "blocked"
    /\ Len(queue[2]) = OggQueueCapacity
    /\ live' = {1, 2}
    /\ UNCHANGED <<scenarioVars, clientVars, decVars, busVars, handlerVars, encVars, chanVars>>

\* ---- connections and chat ----------------------------------------------

\* The server accepts a connection: RpcServerBuilder is given no connection
\* hook, so the extension map of the connection holds no ListenerInfo.
ConnAccept(c) ==
    /\ ~conn[c]
    /\ conn' = [conn EXCEPT ![c] = TRUE]
    /\ ext' = [ext EXCEPT ![c] = {}]
    /\ UNCHANGED <<info_ret, chat_ret, chatVars, audioVars>>

\* An accept that stores ListenerInfo {id} in the extension map of the
\* connection (the identity send_chat looks up).
ConnAcceptWithInfo(c) ==
    /\ ~conn[c]
    /\ conn' = [conn EXCEPT ![c] = TRUE]
    /\ ext' = [ext EXCEPT ![c] = {c}]
    /\ UNCHANGED <<info_ret, chat_ret, chatVars, audioVars>>

\* The client leaves ('quit', end of input): its connection is closed and
\* its extension map is gone.
ConnClose(c) ==
    /\ conn[c]
    /\ conn' = [conn EXCEPT ![c] = FALSE]
    /\ ext' = [ext EXCEPT ![c] = {}]
    /\ UNCHANGED <<info_ret, chat_ret, chatVars, audioVars>>

\* Receivers of the chat bus: one per chat_stream call in its loop.
ChatReceiverCount == Cardinality({k \in ChatSubs : csub[k] = "attached"})

\* A send_chat that publishes under id 0 when the ListenerInfo is missing.
SendChatAnonymous(c) ==
    /\ conn[c]
    /\ \E m \in Texts : \E id \in (IF ext[c] = {} THEN {0} ELSE ext[c]) :
         IF ChatReceiverCount = 0
           THEN UNCHANGED chat_log
           ELSE /\ Len(chat_log) < chat_limit
                /\ chat_log' = Append(chat_log, [listener_id |-> id, message |-> m])
    /\ chat_ret' = "ok"
    /\ UNCHANGED <<conn, ext, info_ret, csub, ccursor, csub_at, crcv, audioVars>>

\* send_chat(ctx, message): look up ListenerInfo (Err if missing), build the
\* ChatMessage, chat_broadcast_tx.send (its result ignored), Ok(()).
\* broadcast send stores nothing when there is no receiver.
SendChat(c) ==
    /\ conn[c]
    /\ IF ext[c] = {}
         THEN /\ chat_ret' = "err"
              /\ UNCHANGED chat_log
         ELSE /\ \E m \in Texts : \E id \in ext[c] :
                   IF ChatReceiverCount = 0
                     THEN UNCHANGED chat_log
                     ELSE /\ Len(chat_log) < chat_limit
                          /\ chat_log' = Append(chat_log,
                                  [listener_id |-> id, message |-> m])
              /\ chat_ret' = "ok"
    /\ UNCHANGED <<conn, ext, info_ret, csub, ccursor, csub_at, crcv, audioVars>>

\* A subscription that starts at the oldest message the bus retains.
ChatSubscribeAtOldest ==
    IF Len(chat_log) > ChatCapacity THEN Len(chat_log) - ChatCapacity ELSE 0

\* The position a new chat_rx starts from: the live edge.
ChatSubscribeAt == Len(chat_log)

\* chat_stream: chat_broadcast_tx.subscribe().
ChatSubscribe(k) ==
    /\ csub[k] = "none"
    /\ csub' = [csub EXCEPT ![k] = "attached"]
    /\ ccursor' = [ccursor EXCEPT ![k] = ChatSubscribeAt]
    /\ csub_at' = [csub_at EXCEPT ![k] = Len(chat_log)]
    /\ UNCHANGED <<chat_log, crcv, rpcVars, audioVars>>

\* A receive that wakes up at the newest message and skips what is between.
ChatNextNewest(k) == Len(chat_log)

\* The message chat_rx.recv() returns next: the one after the cursor.
ChatNext(k) == ccursor[k] + 1

\* chat_stream loop: recv gives Ok(msg), sink.send(msg) succeeds.
ChatDeliver(k) ==
    /\ csub[k] = "attached"
    /\ ccursor[k] < Len(chat_log)
    /\ Len(chat_log) - ccursor[k] <= ChatCapacity
    /\ ccursor' = [ccursor EXCEPT ![k] = ChatNext(k)]
    /\ crcv' = [crcv EXCEPT ![k] = Append(@, <<ChatNext(k), chat_log[ChatNext(k)]>>)]
    /\ UNCHANGED <<chat_log, csub, csub_at, rpcVars, audioVars>>

\* The chat_stream call is over: its locals (chat_rx, sink) are gone.
ChatEnded(k) ==
    /\ csub' = [csub EXCEPT ![k] = "ended"]
    /\ ccursor' = [ccursor EXCEPT ![k] = 0]
    /\ csub_at' = [csub_at EXCEPT ![k] = 0]
    /\ crcv' = [crcv EXCEPT ![k] = <<>>]

\* chat_stream loop: recv gives Ok(msg), sink.send(msg) fails: break.
ChatSinkFail(k) ==
    /\ csub[k] = "attached"
    /\ ccursor[k] < Len(chat_log)
    /\ ChatEnded(k)
    /\ UNCHANGED <<chat_log, rpcVars, audioVars>>

\* chat_stream loop: recv gives Err(Lagged), the subscriber is more than
\* the bus capacity behind; `while let Ok(..)` ends and the call returns.
ChatLagged(k) ==
    /\ csub[k] = "attached"
    /\ Len(chat_log) - ccursor[k] > ChatCapacity
    /\ ChatEnded(k)
    /\ UNCHANGED <<chat_log, rpcVars, audioVars>>

\* The chat_stream future is dropped at an await (the client is gone).
ChatDrop(k) ==
    /\ csub[k] = "attached"
    /\ ChatEnded(k)
    /\ UNCHANGED <<chat_log, rpcVars, audioVars>>

\* ---- the listener side: recv_task and ChannelReader --------------------

\* Everything outside the listener-side bridge.
serverVars == <<live, scenarioVars, decVars, busVars, handlerVars, encVars, chanVars>>

\* RadioListener::listen: the stream is open, the data channel is made,
\* recv_task and the blocking decoder task (owning the reader) are spawned.
BridgeStart ==
    /\ rtask = "none"
    /\ rtask' = "run"
    /\ rpc' = "idle"
    /\ UNCHANGED <<net, nput, dq, want, rbuf, rpos, got, ret, serverVars>>

\* recv_task: recv.read gives Ok(Some(n)); data_tx.send(chunk[..n]) waits
\* for room, and fails when the reader is gone (break).
RecvTaskChunk ==
    /\ rtask = "run"
    /\ nput < MaxChunks
    /\ \E n \in 0..(IF StreamLen - net < MaxRead THEN StreamLen - net ELSE MaxRead) :
         IF rpc = "dropped"
           THEN /\ rtask' = "done"
                /\ UNCHANGED <<net, nput, dq>>
           ELSE /\ Len(dq) < DataCapacity
                /\ dq' = Append(dq, [i \in 1..n |-> net + i])
                /\ net' = net + n
                /\ nput' = nput + 1
                /\ UNCHANGED rtask
    /\ UNCHANGED <<rpc, want, rbuf, rpos, got, ret, serverVars>>

\* recv_task: recv.read gives Ok(None) or Err(_): break; data_tx is dropped.
RecvTaskEnd ==
    /\ rtask = "run"
    /\ rtask' = "done"
    /\ UNCHANGED <<net, nput, dq, rpc, want, rbuf, rpos, got, ret, serverVars>>

\* The decoder calls ChannelReader::read with a destination of d bytes.
ReadCall(d) ==
    /\ rpc = "idle"
    /\ rpc' = "reading"
    /\ want' = d
    /\ UNCHANGED <<rtask, net, nput, dq, rbuf, rpos, got, ret, serverVars>>

\* read: position < buffer.len(): copy what fits and return its length.
ReadCopy ==
    /\ rpc = "reading"
    /\ rpos < Len(rbuf)
    /\ LET available == Len(rbuf) - rpos
           to_copy == IF available < want THEN available ELSE want
       IN /\ got' = got \o SubSeq(rbuf, rpos + 1, rpos + to_copy)
          /\ rpos' = rpos + to_copy
          /\ ret' = to_copy
    /\ rpc' = "idle"
    /\ want' = 0
    /\ UNCHANGED <<rtask, net, nput, dq, rbuf, serverVars>>

\* A read that copies from the chunk it received and returns at once,
\* whatever the length of the chunk.
ReadRecvCopies ==
    /\ rpc = "reading"
    /\ rpos >= Len(rbuf)
    /\ dq # <<>>
    /\ LET chunk == Head(dq)
           to_copy == IF Len(chunk) < want THEN Len(chunk) ELSE want
       IN /\ rbuf' = chunk
          /\ got' = got \o SubSeq(chunk, 1, to_copy)
          /\ rpos' = to_copy
          /\ ret' = to_copy
    /\ dq' = Tail(dq)
    /\ rpc' = "idle"
    /\ want' = 0
    /\ UNCHANGED <<rtask, net, nput, serverVars>>

\* read: the buffer is used up; rx.blocking_recv() gives Some(chunk): it
\* becomes the buffer, position 0, and read runs again on it.
ReadRecv ==
    /\ rpc = "reading"
    /\ rpos >= Len(rbuf)
    /\ dq # <<>>
    /\ rbuf' = Head(dq)
    /\ rpos' = 0
    /\ dq' = Tail(dq)
    /\ UNCHANGED <<rtask, net, nput, rpc, want, got, ret, serverVars>>

\* read: the buffer is used up; rx.blocking_recv() gives None (the channel
\* is empty and data_tx is gone): Ok(0).
ReadEof ==
    /\ rpc = "reading"
    /\ rpos >= Len(rbuf)
    /\ dq = <<>>
    /\ rtask = "done"
    /\ ret' = 0
    /\ rpc' = "idle"
    /\ want' = 0
    /\ UNCHANGED <<rtask, net, nput, dq, rbuf, rpos, got, serverVars>>

\* The blocking task returns (decoder error, or the playback time is up):
\* the reader and data_rx are dropped with what they hold.
ReaderDrop ==
    /\ rpc = "idle"
    /\ rpc' = "dropped"
    /\ dq' = <<>>
    /\ rbuf' = <<>>
    /\ rpos' = 0
    /\ got' = <<>>
    /\ ret' = -1
    /\ UNCHANGED <<rtask, net, nput, want, serverVars>>

\* ---- station info --------------------------------------------------------

\* A get_info that counts its caller as a listener.
GetInfoCounting ==
    /\ info_ret' = <<[name |-> StationName, description |-> StationDesc,
                      bitrate |-> Bitrate, sample_rate |-> SampleRate,
                      channels |-> Channels, listeners |-> listener_count + 1]>>
    /\ listener_count' = listener_count + 1
    /\ UNCHANGED <<pc, listener_id, last_id, exit, cur, cur_off, sent>>
    /\ UNCHANGED <<conn, ext, chat_ret, chatVars>>
    /\ UNCHANGED <<live, scenarioVars, clientVars, decVars, others, encVars, chanVars>>

\* get_info: Ok(StationInfo {..}) with listeners = listener_count.load().
GetInfo ==
    /\ info_ret' = <<[name |-> StationName, description |-> StationDesc,
                      bitrate |-> Bitrate, sample_rate |-> SampleRate,
                      channels |-> Channels, listeners |-> listener_count]>>
    /\ UNCHANGED <<conn, ext, chat_ret, chatVars, audioVars>>

\* ---- specifications ----------------------------------------------------

\* What every run can do.
Core ==
    \/ DecOpen \/ DecSleep \/ DecEof \/ DecPublish
    \/ DecSkip \/ DecReset \/ DecFatal
    \/ \E s \in live : EncStart(s)
    \/ \E s \in live : EncInitFail(s)
    \/ \E s \in live : EncEncode(s)
    \/ \E s \in live : EncFinish(s)
    \/ \E s \in live : Accept(s)
    \/ \E s \in live : Subscribe(s)
    \/ \E s \in live : RecvChunk(s)
    \/ \E s \in live : RecvNone(s)
    \/ \E s \in live : WriteOk(s)
    \/ \E s \in live : WriteErr(s)
    \/ \E s \in live : WriteStall(s)
    \/ \E s \in live : TdFinish(s)
    \/ \E s \in live : TdAbort(s)
    \/ \E s \in live : TdDecrement(s)
    \/ \E s \in live : Cancel(s)

\* The fleet run is too short for a receiver to lag or a byte queue to
\* fill: EncLagged and EncUnblock are never enabled in it.
Next == Core

NextSolo == Core \/ OtherSubscribe \/ OtherDrop \/ GetInfo

NextLag == Core \/ \E s \in live : EncLagged(s)

NextStall == Core \/ Arrive \/ \E s \in live : EncUnblock(s)

NextSink ==
    \/ \E s \in live : Accept(s)
    \/ \E s \in live : Subscribe(s)
    \/ \E s \in live : EncStart(s)
    \/ \E s \in live : SinkWrite(s)
    \/ \E s \in live : SinkFlush(s)
    \/ \E s \in live : SinkDrop(s)

NextMono == Core \/ \E s \in live : EncReject(s)

NextIds == Core \/ \E s \in live : Reconnect(s)

Spec == Init /\ [][Next]_vars

SpecSolo == InitSolo /\ [][NextSolo]_vars

SpecLag == InitLag /\ [][NextLag]_vars

SpecStall == InitStall /\ [][NextStall]_vars

SpecMono == InitMono /\ [][NextMono]_vars

\* One listener's byte sink under arbitrary write, flush and drop calls.
SpecSink == InitSolo /\ [][NextSink]_vars

\* Connections and chat alone (the chat bus shares nothing with the audio
\* path).
NextChat ==
    \/ \E c \in Conns : ConnAccept(c)
    \/ \E c \in Conns : ConnAcceptWithInfo(c)
    \/ \E c \in Conns : ConnClose(c)
    \/ \E c \in Conns : SendChat(c)
    \/ \E k \in ChatSubs : ChatSubscribe(k)
    \/ \E k \in ChatSubs : ChatDeliver(k)
    \/ \E k \in ChatSubs : ChatSinkFail(k)
    \/ \E k \in ChatSubs : ChatDrop(k)

\* The source file plays no part in chat.
InitChat == Init /\ file_ok

SpecChat == InitChat /\ [][NextChat]_vars

\* Chat with one subscriber that is slow to take its messages, and room
\* for more messages than the chat bus retains.
InitChatLag ==
    /\ live = {1}
    /\ limit = MaxBlocks
    /\ stalled = {}
    /\ fleet = 0
    /\ sizes = WriteSizes
    /\ src_channels = Channels
    /\ chat_limit = ChatCapacity + ChatLagMsgs
    /\ InitCommon
    /\ file_ok

NextChatLag ==
    \/ \E c \in Conns : ConnAcceptWithInfo(c)
    \/ \E c \in Conns : SendChat(c)
    \/ \E k \in ChatSubs \cap live : ChatSubscribe(k)
    \/ \E k \in ChatSubs \cap live : ChatDeliver(k)
    \/ \E k \in ChatSubs \cap live : ChatLagged(k)

SpecChatLag == InitChatLag /\ [][NextChatLag]_vars

NextBridge ==
    \/ BridgeStart
    \/ RecvTaskChunk
    \/ RecvTaskEnd
    \/ \E d \in 1..MaxDst : ReadCall(d)
    \/ ReadCopy
    \/ ReadRecv
    \/ ReadEof
    \/ ReaderDrop

\* The listener-side bridge alone.
SpecBridge == InitChat /\ [][NextBridge]_vars

\* The fleet run with listeners that come back after their session ended.
SpecIds == Init /\ [][NextIds]_vars

\* ---- properties --------------------------------------------------------

\* Handler states between the increment and the decrement of the counter.
ActivePcs == {"accepted", "recv", "write", "finish", "abort", "dec"}

\* Handler states of the cleanup after the send loop.
TeardownPcs == {"finish", "abort", "dec"}

ActiveSessions == {s \in Slots : pc[s] \in ActivePcs}

\* C1: in every reachable state listener_count is the number of sessions
\* that are past the increment of accept and before the end of teardown; it
\* is never negative and is 0 whenever no session is active.
C1_CountIsActiveSessions ==
    /\ listener_count >= 0
    /\ listener_count = Cardinality(ActiveSessions)

\* C2: teardown runs on every exit path of a session, cancellation at an
\* await included: once every session has ended (returned or cancelled),
\* listener_count is back to 0.
C2_CountZeroAfterAllEnded ==
    (\A s \in Slots : pc[s] \in {"idle", "done", "cancelled"})
        => listener_count = 0

\* Listener s waits for a chunk that can never come: the decoder thread has
\* exited, the encoder has taken every block and waits for the next, and
\* nothing is buffered or queued that would be sent.
Starved(s) ==
    /\ pc[s] = "recv"
    /\ queue[s] = <<>>
    /\ enc[s] = "loop"
    /\ cursor[s] = tail
    /\ dec = "exited"

\* C3: with a decodable file, a listener that has opened a listen session
\* eventually has bytes written to its stream, whenever it connects. As a
\* state property: no listener that has been sent nothing is ever in a state
\* from which nothing can be sent to it any more.
C3_ListenerIsNeverStarved ==
    file_ok => \A s \in Slots : ~(Starved(s) /\ sent[s] = 0)

\* C4: the file decoder loops forever; while the broadcaster runs (the bus
\* is never closed in these runs) the decoder thread never leaves its loop.
C4_DecoderNeverExits == dec # "exited"

\* C5: a publish while no subscriber is attached is a no-op that reports no
\* error and does not stop the decoder: no step taken by the decoder while
\* the bus has zero receivers ends the decode loop.
C5_PublishToNobodyKeepsDecoding ==
    [][(dec = "packets" /\ ReceiverCount = 0) => dec' # "exited"]_vars

\* Listener 2 has stalled: its byte queue is full and its encoder is
\* blocked in blocking_send.
Stalled2 ==
    /\ 2 \in live
    /\ enc[2] = "blocked"
    /\ Len(queue[2]) = OggQueueCapacity

\* Everything that belongs to listener s.
ListenerState(s) ==
    <<pc[s], listener_id[s], exit[s], enc[s], cursor[s], sub_at[s], rcv[s],
      lagged[s], buf[s], pending[s], pend_off[s], emitted[s], queue[s],
      qoff[s], qopen[s], cur[s], cur_off[s], sent[s]>>

\* The decoder can publish its next block (the run's block budget aside).
PublishNeverBlocks ==
    (dec = "packets" /\ pos < FileLen /\ tail < limit) => ENABLED DecPublish

\* Each stage of listener s can take its next step whenever its own input
\* is there, whatever the state of any other listener.
CanProceed(s) ==
    /\ (enc[s] = "loop" /\ cursor[s] < tail) => ENABLED EncEncode(s)
    /\ (pc[s] = "recv" /\ queue[s] # <<>>) => ENABLED RecvChunk(s)
    /\ (pc[s] = "write" /\ s \notin stalled) => ENABLED WriteOk(s)

\* C6: publish never blocks the producer and listeners are isolated: while
\* listener 2 is stalled and after its session has ended, the decoder can
\* publish, listener 1 can take, encode and send, every published block
\* reaches the receiver of listener 1, and no step of one listener changes
\* anything of the other.
C6_StalledListenerIsolated ==
    /\ [](PublishNeverBlocks /\ CanProceed(1))
    /\ [][(tail' = tail + 1 /\ RxAlive(1)) =>
             (cursor'[1] = cursor[1] /\ RxAlive(1)')]_vars
    /\ [][ListenerState(1)' = ListenerState(1)
            \/ ListenerState(2)' = ListenerState(2)]_vars

\* C6 witness: listener 2 is stalled with a full queue while listener 1 has
\* taken a block published during the stall and has sent two chunks.
C6_Witness ==
    /\ Stalled2
    /\ pc[2] = "write"
    /\ Len(rcv[1]) >= 1
    /\ sent[1] >= 2 * FlushThreshold

\* C7: the blocks handed to a listener's encoder are exactly the blocks
\* published after its subscribe step, in publish order, without gap or
\* duplicate, and none published before it.
C7_ReceivesLiveTailInOrder ==
    \A s \in Slots :
        /\ Len(rcv[s]) <= tail - sub_at[s]
        /\ \A i \in 1..Len(rcv[s]) : rcv[s][i] = sub_at[s] + i

\* C7 witness: a listener that subscribed after a block was published has
\* been handed two blocks.
C7_Witness ==
    \E s \in Slots : sub_at[s] >= 1 /\ Len(rcv[s]) >= 2

\* C8: the step in which the subscriber of a listener gets the lag signal
\* leaves its encoder worker in the receive loop (it does not tear down).
C8_LagKeepsEncoderInLoop ==
    [][\A s \in Slots : (lagged'[s] /\ ~lagged[s]) => enc'[s] = "loop"]_vars

\* C9: a write that completes lets the session go on with the next chunk; a
\* write that fails or misses the deadline ends the send loop, and from
\* there the session is in its cleanup, which nothing blocks or cancels,
\* and which ends with the decrement of listener_count.
C9_WriterOutcomes ==
    /\ [](\A s \in Slots :
            exit[s] \in {"ioerror", "stall"} =>
                /\ pc[s] \in TeardownPcs
                /\ ENABLED (TdFinish(s) \/ TdAbort(s) \/ TdDecrement(s)))
    /\ [][\A s \in Slots :
            /\ (pc[s] = "write" /\ pc'[s] = "recv") =>
                  (sent'[s] = sent[s] + cur[s] /\ exit'[s] = "none")
            /\ (pc[s] = "write" /\ pc'[s] \notin {"write", "recv", "cancelled"}) =>
                  (pc'[s] = "finish" /\ exit'[s] \in {"ioerror", "stall"})
            /\ (pc[s] \in TeardownPcs /\ pc'[s] # pc[s]) =>
                  \/ pc'[s] \in TeardownPcs
                  \/ (pc'[s] = "done" /\ listener_count' = listener_count - 1)]_vars

\* C9 witness: a session whose write missed the deadline is at the
\* decrement of its cleanup.
C9_Witness ==
    \E s \in Slots : pc[s] = "dec" /\ exit[s] = "stall"

\* No chunk can ever arrive on the byte queue of listener s: the source
\* publishes nothing (open failed, or the decoder has exited), and its
\* encoder has nothing left to emit.
Silent(s) ==
    /\ pc[s] = "recv"
    /\ queue[s] = <<>>
    /\ enc[s] = "loop"
    /\ cursor[s] = tail
    /\ (~file_ok \/ dec = "exited")

\* C10: a session in which nothing is sent for the inactivity deadline is
\* terminated, also when no chunk ever arrives: in a silent session the
\* handler has a step that leaves the wait for the next chunk.
C10_SilentSessionCanTimeOut ==
    \A s \in Slots : Silent(s) => ENABLED (RecvChunk(s) \/ RecvNone(s))


\* Sum of the first i chunk lengths of q.
RECURSIVE SumTo(_, _)
SumTo(q, i) == IF i = 0 THEN 0 ELSE SumTo(q, i - 1) + q[i]

\* Bytes of listener s that have left the encoder and not yet the handler.
InFlight(s) == cur[s] + SumTo(queue[s], Len(queue[s])) + pending[s] + buf[s]

\* C11: the bytes written to a listener's stream are a prefix of the bytes
\* its encoder emitted, in order. While the send loop of the session runs
\* (after it nothing is written any more), the chunk being written starts at the
\* offset where the stream ends, the queued chunks and the chunk of a
\* blocked send follow it without gap or overlap, and while the send loop
\* and the encoder run, sent bytes and bytes in flight add up to the
\* emitted bytes.
C11_StreamIsPrefixOfEmitted ==
    \A s \in Slots : pc[s] \in {"recv", "write"} =>
        /\ pc[s] = "write" => cur_off[s] = sent[s]
        /\ \A i \in 1..Len(queue[s]) :
               qoff[s][i] = sent[s] + cur[s] + SumTo(queue[s], i - 1)
        /\ pending[s] > 0 =>
               pend_off[s] = sent[s] + cur[s] + SumTo(queue[s], Len(queue[s]))
        /\ enc[s] \notin {"none", "done"} => sent[s] + InFlight(s) = emitted[s]

\* C11 witness: listener 2 holds a full queue and a blocked chunk, while
\* listener 1 has sent a chunk that held buffered header bytes together
\* with a block and is writing the next chunk.
C11_Witness ==
    /\ Stalled2
    /\ pending[2] > 0
    /\ pc[1] = "write"
    /\ sent[1] > FlushThreshold
    /\ sent[1] % FlushThreshold # 0
    /\ cur[1] > 0


\* C12: listener ids are non-decreasing in accept order: the id a session
\* gets at its accept is not below the id given at the accept before it.
C12_IdsNonDecreasing ==
    [][\A s \in Slots :
          (pc[s] = "idle" /\ pc'[s] = "accepted" /\ last_id >= 0) =>
              listener_id'[s] >= last_id]_vars

\* Sessions that hold a listener id: from accept to the end of the handler.
HasId(s) == pc[s] \in ActivePcs

\* C13: every session gets a fresh id: no two sessions that are active at
\* the same time have the same listener_id.
C13_ActiveIdsDistinct ==
    \A s, u \in Slots :
        (s # u /\ HasId(s) /\ HasId(u)) => listener_id[s] # listener_id[u]


\* Bus positions of the messages handed to the sink of chat_stream call k.
Delivered(k) == {crcv[k][i][1] : i \in 1..Len(crcv[k])}

C15_ChatInOrderNoHistory ==
    \A k \in ChatSubs : \A i \in 1..Len(crcv[k]) :
        /\ crcv[k][i][1] > csub_at[k]
        /\ crcv[k][i][1] <= Len(chat_log)
        /\ crcv[k][i][2] = chat_log[crcv[k][i][1]]
        /\ i > 1 => crcv[k][i - 1][1] < crcv[k][i][1]

\* C15 witness: one subscriber has been handed two messages, another one
\* subscribed after a message was published and has been handed a later one.
C15_Witness ==
    /\ \E k \in ChatSubs : Len(crcv[k]) >= 2
    /\ \E k \in ChatSubs : csub_at[k] >= 1 /\ Len(crcv[k]) >= 1

\* C16: every open connection has a ListenerInfo in its extension map, so
\* no send_chat of a connected listener fails, and every message on the bus
\* carries the id of a ListenerInfo.
C16_ConnectionsHaveListenerInfo ==
    /\ \A c \in Conns : conn[c] => ext[c] # {}
    /\ chat_ret # "err"
    /\ \A i \in 1..Len(chat_log) : chat_log[i].listener_id \in Conns

\* C17: a send_chat on a connection without ListenerInfo returns an error
\* and changes nothing of the chat bus or its subscribers.
C17_ChatWithoutInfoIsRejected ==
    [][\A c \in Conns :
          (ext[c] = {} /\ SendChat(c)) =>
              (chat_ret' = "err" /\ UNCHANGED chatVars)]_vars

\* C17 witness: a send_chat has failed while a subscriber was attached.
C17_Witness ==
    /\ chat_ret = "err"
    /\ ChatReceiverCount >= 1
    /\ \E c \in Conns : conn[c] /\ ext[c] = {}


\* The fields of a StationInfo other than listeners.
FixedFields(i) == <<i.name, i.description, i.bitrate, i.sample_rate, i.channels>>

\* C18: info always succeeds and is read-only. A call is always possible;
\* the step in which a call returns a new result changes neither
\* listener_count nor a bus nor anything else, and reports the current
\* listener_count; a result differs from the one before it only in
\* listeners, and only if listener_count is no longer what the earlier call
\* saw; the bitrate is 128000.
C18_InfoReadOnly ==
    /\ [](ENABLED GetInfo)
    /\ [](info_ret # <<>> => info_ret[1].bitrate = Bitrate)
    /\ [][info_ret' # info_ret =>
            /\ UNCHANGED <<audioVars, chatVars, conn, ext, chat_ret>>
            /\ info_ret'[1].listeners = listener_count
            /\ info_ret # <<>> =>
                  /\ FixedFields(info_ret'[1]) = FixedFields(info_ret[1])
                  /\ info_ret[1].listeners # listener_count]_vars

\* C18 witness: a call has reported one listener, and the session of that
\* listener has since been torn down.
C18_Witness ==
    /\ info_ret # <<>>
    /\ info_ret[1].listeners = 1
    /\ listener_count = 0
    /\ pc[1] = "done"


\* C19: every block handed to a listener's codec encoder is exactly
\* target-channels planes wide, whatever the channel count of the source.
C19_EncoderInputIsTargetWide ==
    \A s \in Slots : rcv[s] # <<>> => HandedWidth = Channels

\* Handler steps that change listener_count in one transition: accepts add
\* one each, the last teardown statement takes one off.
Accepts == {s \in Slots : pc[s] = "idle" /\ pc'[s] = "accepted"}

Decrements == {s \in Slots : pc[s] = "dec" /\ pc'[s] = "done"}

\* C20: when creating a listener's encoder fails, the worker ends and drops
\* its sender with nothing queued and nothing sent for that session, leaving
\* listener_count, the decoder and every other session as they were; a
\* handler waiting on the drained, closed queue leaves the send loop (and
\* cannot write), each teardown statement can run once reached, and the
\* counter moves only by +1 per accept and -1 per completed teardown.
C20_EncoderInitFailureEndsSession ==
    /\ [](\A s \in Slots :
            /\ (pc[s] = "recv" /\ enc[s] = "done" /\ queue[s] = <<>>) =>
                   ENABLED RecvNone(s) /\ ~ENABLED RecvChunk(s)
            /\ pc[s] = "finish" => ENABLED TdFinish(s)
            /\ pc[s] = "abort" => ENABLED TdAbort(s)
            /\ pc[s] = "dec" => ENABLED TdDecrement(s))
    /\ [][\A s \in Slots : EncInitFail(s) =>
            /\ enc'[s] = "done"
            /\ queue'[s] = <<>> /\ cur'[s] = 0 /\ sent'[s] = 0
            /\ pending'[s] = 0 /\ buf'[s] = 0
            /\ listener_count' = listener_count
            /\ decVars' = decVars
            /\ \A t \in Slots \ {s} : ListenerState(t)' = ListenerState(t)]_vars
    /\ [][listener_count' =
            listener_count + Cardinality(Accepts) - Cardinality(Decrements)]_vars

\* C20 witness: listener 1's encoder was never created (nothing emitted,
\* nothing sent), its send loop ended on the closed queue and its teardown
\* has reached the decrement, while listener 2's session is still running.
C20_Witness ==
    /\ pc[1] = "dec" /\ exit[1] = "eof" /\ sent[1] = 0 /\ enc[1] = "done"
    /\ listener_count = 2
    /\ pc[2] = "write" /\ enc[2] \in {"loop", "blocked"}

\* What the handler of slot s owns or has written.
HandlerState(s) ==
    <<pc[s], listener_id[s], exit[s], cur[s], cur_off[s], sent[s],
      queue[s], qoff[s], qopen[s]>>

WorkerStep(s) ==
    \/ EncStart(s) \/ EncInitFail(s) \/ EncEncode(s) \/ EncReject(s)
    \/ EncLagged(s) \/ EncUnblock(s) \/ EncFinish(s)

\* No block will be published any more: the decoder thread has left its
\* loop, or the source file cannot be opened.
SourceSilent == dec = "exited" \/ ~file_ok

\* C22: once a listen session has ended or was cancelled, its encoder worker
\* can always take its next step towards termination, also while the source
\* publishes nothing more: it is never left waiting for a block.
C22_WorkerOfEndedSessionProceeds ==
    \A s \in Slots :
        (pc[s] \in {"done", "cancelled"} /\ enc[s] \notin {"none", "done"}
            /\ SourceSilent) => ENABLED WorkerStep(s)

\* Bytes of listener s that the sink holds or has queued.
Held(s) == SumTo(queue[s], Len(queue[s])) + pending[s] + buf[s]

\* C23: when the worker ends while the handler still drains, the finalize
\* step puts everything the sink holds, the trailing frames and the residual
\* buffer below 8192 bytes included, on the byte queue (nothing stays in the
\* buffer of a finished worker); the handler takes every queued chunk before
\* it sees the queue as closed, each chunk written is added to the stream,
\* and when the session reaches send.finish() by end of queue nothing is
\* left queued or in hand.
C23_FinalBytesAreDrained ==
    /\ [](\A s \in Slots :
            /\ (pc[s] = "recv" /\ queue[s] # <<>>) =>
                   ENABLED RecvChunk(s) /\ ~ENABLED RecvNone(s)
            /\ (pc[s] \in {"recv", "write"} /\ enc[s] = "done") =>
                   buf[s] = 0 /\ pending[s] = 0
            /\ (pc[s] = "finish" /\ exit[s] = "eof") =>
                   queue[s] = <<>> /\ cur[s] = 0 /\ enc[s] = "done")
    /\ [][\A s \in Slots :
            /\ (enc[s] \in {"finish", "blocked_finish"} /\ enc'[s] # enc[s]
                    /\ qopen[s] /\ pc[s] \in {"recv", "write"}) =>
                   /\ Held(s)' - Held(s) \in WriteSizes
                   /\ buf'[s] = 0
                   /\ sent'[s] = sent[s] /\ cur'[s] = cur[s]
            /\ (pc[s] = "write" /\ pc'[s] = "recv") =>
                   sent'[s] = sent[s] + cur[s]
            /\ (pc[s] = "recv" /\ pc'[s] = "write") =>
                   /\ cur'[s] = Head(queue[s])
                   /\ queue'[s] = Tail(queue[s])]_vars

\* C23 witness: the worker ended on an encoder error with the byte queue
\* open, and the session reached send.finish() by end of queue after it
\* wrote more than the first full chunk, a residual chunk included.
C23_Witness ==
    /\ src_channels # Channels
    /\ pc[1] = "finish" /\ exit[1] = "eof"
    /\ sent[1] > FlushThreshold
    /\ sent[1] % FlushThreshold # 0

\* The worker of slot s has put one more chunk on its byte queue.
Enqueued(s) == Len(queue'[s]) = Len(queue[s]) + 1

\* The chunk that step put there.
NewChunk(s) == queue'[s][Len(queue'[s])]

\* C24 as stated: every chunk on a listener's byte queue is at least 8192
\* bytes long.
C24_EveryChunkAtLeastThreshold ==
    \A s \in Slots : \A i \in 1..Len(queue[s]) : queue[s][i] >= FlushThreshold

\* C24 amended: a chunk the sink sends from write is at least 8192 bytes
\* long; flush and drop send the residual buffer, which is shorter than
\* 8192 bytes, and only when it is not empty. No chunk on the queue is
\* empty, and the buffer stays below 8192 bytes between calls.
C24_WriteChunksAtLeastThreshold ==
    /\ [](\A s \in Slots :
            /\ \A i \in 1..Len(queue[s]) : queue[s][i] > 0
            /\ buf[s] < FlushThreshold)
    /\ [][\A s \in Slots :
            /\ ((SinkWrite(s) \/ EncStart(s)) /\ Enqueued(s)) =>
                   /\ NewChunk(s) >= FlushThreshold
                   /\ buf'[s] = 0
            /\ ((SinkFlush(s) \/ SinkDrop(s)) /\ Enqueued(s)) =>
                   /\ NewChunk(s) > 0
                   /\ NewChunk(s) < FlushThreshold
                   /\ NewChunk(s) = buf[s]
            /\ (SinkWrite(s) \/ EncStart(s) \/ SinkFlush(s) \/ SinkDrop(s)) =>
                   \/ Enqueued(s)
                   \/ queue'[s] = queue[s]]_vars

\* C24 witness: behind a full chunk sent from write, the queue holds the
\* residual chunk of the finished worker, shorter than 8192 bytes.
C24_Witness ==
    /\ Len(queue[1]) >= 2
    /\ queue[1][1] >= FlushThreshold
    /\ queue[1][Len(queue[1])] < FlushThreshold
    /\ queue[1][Len(queue[1])] > 0

\* Everything the listeners own.
ListenerVars == <<handlerVars, encVars, chanVars>>

\* C25 as stated: a pass that ends before the end of the file, by any
\* packet-read or decode error, is followed by the 1 s wait.
C25_EveryReadErrorWaits ==
    [][(dec = "packets" /\ pos < FileLen /\ dec' \notin {"packets", "exited"})
          => dec' = "sleep"]_vars

\* C25 amended: decode failures never end the decode loop and never touch a
\* listener. A packet of another track or a bad-packet decode error is
\* skipped and the pass goes on with the next packet; a reset-required
\* result, like the end of the stream, ends the pass as complete and the
\* next pass starts at once; any other packet-read or decode error aborts
\* the pass, the loop waits 1 s and starts a new pass at the beginning of
\* the file. Only a failed publish ends the loop.
C25_DecodeErrorsKeepLoop ==
    /\ [](/\ dec = "sleep" => ENABLED DecSleep
          /\ dec = "open" => ENABLED DecOpen)
    /\ [][/\ DecSkip => (dec' = "packets" /\ pos' = pos + 1 /\ tail' = tail)
          /\ DecFatal => dec' = "sleep"
          /\ DecSleep => dec' = "open"
          /\ (DecReset \/ DecEof) => dec' = "open"
          /\ DecOpen => pos' = 0
          /\ (DecSkip \/ DecFatal \/ DecSleep \/ DecReset \/ DecEof \/ DecOpen)
                => ListenerVars' = ListenerVars
          /\ (dec # "exited" /\ dec' = "exited") => (dec = "packets" /\ SendFails)
         ]_vars

\* C25 witness: a pass was aborted by an error after it had published a
\* block, with a listener's encoder running; the loop is in its 1 s wait.
C25_Witness ==
    /\ dec = "sleep"
    /\ file_ok
    /\ pos > 0 /\ tail > 0
    /\ enc[1] = "loop"

\* C26: when the source file cannot be opened the audio thread exits: it is
\* never found waiting to try the file again.
C26_OpenFailureExitsThread ==
    ~file_ok => dec \in {"open", "exited"}

\* C27: a chat subscriber that has fallen more than the bus capacity behind
\* stays subscribed: lag alone does not end its chat_stream.
C27_ChatLagKeepsSubscription ==
    [][\A k \in ChatSubs :
          (csub[k] = "attached" /\ Len(chat_log) - ccursor[k] > ChatCapacity)
             => csub'[k] = "attached"]_vars

\* The chunks of a queue, concatenated in order.
RECURSIVE Flatten(_)
Flatten(q) == IF q = <<>> THEN <<>> ELSE Head(q) \o Flatten(Tail(q))

\* The bytes the reader still has to return: the rest of its buffer, then
\* the chunks on the data channel.
Unread == SubSeq(rbuf, rpos + 1, Len(rbuf)) \o Flatten(dq)

\* C28: while the reader lives, the bytes its read calls have returned,
\* followed by what it still holds and what is on the channel, are exactly
\* the bytes recv_task put on the channel, in order; a read with a
\* non-empty destination returns at least one byte, and returns 0 only when
\* the channel is closed and empty and every byte put on it has been
\* returned (an empty chunk is passed over); such a read can always return
\* once the channel is closed.
C28_ReaderReturnsChannelBytes ==
    /\ [](rpc \in {"idle", "reading"} =>
            /\ got \o Unread = [i \in 1..net |-> i]
            /\ ret = 0 => (rtask = "done" /\ dq = <<>> /\ Len(got) = net)
            /\ (rpc = "reading" /\ rtask = "done") =>
                   ENABLED (ReadCopy \/ ReadRecv \/ ReadEof))
    /\ [][/\ ReadCopy => (ret' >= 1 /\ ret' <= want
                              /\ Len(got') = Len(got) + ret')
          /\ ReadRecv => (got' = got /\ rpc' = "reading")
          /\ ReadEof => got' = got]_vars

\* C28 witness: a read returned 0 after the whole stream was returned, and
\* the channel carried more chunks than bytes, so an empty chunk among them.
C28_Witness ==
    /\ ret = 0
    /\ rpc = "idle"
    /\ Len(got) = StreamLen
    /\ nput > net - 1
    /\ nput = MaxChunks

=============================================================================
